---- MODULE Spec2Model ----
(***************************************************************************)
(* GS1 barcode decoder of the Medicana stock app (utils/parseGs1Data.js). *)
(*                                                                         *)
(* A JavaScript string is modelled as a sequence of one-character strings. *)
(* The two control characters that occur in the model are written GS      *)
(* (0x1D, the GS1 group separator) and TAB (0x09).  Positions are          *)
(* 0-indexed as in the source; substring() converts to TLA+ indices.       *)
(*                                                                         *)
(* The second part models the stock-adjust and stock-transfer functions    *)
(* (netlify/functions) over the inventory and transactions tables, one     *)
(* step per awaited query, each query on a client of the connection pool.  *)
(***************************************************************************)
EXTENDS Integers, Sequences, FiniteSets, TLC

VARIABLES scan, raw, result, pc, yymmdd, expiry, formatted, scanner, last,
          iterations, inventory, transactions, conn, handler

parserVars ==
  <<scan, raw, result, pc, yymmdd, expiry, formatted, scanner, last, iterations>>

stockVars == <<inventory, transactions, conn, handler>>

vars == <<parserVars, stockVars>>

----------------------------------------------------------------------------
(* Characters *)

GS == "<GS>"
TAB == "<TAB>"

Digits == {"0", "1", "2", "3", "4", "5", "6", "7", "8", "9"}

\* /[\x00-\x1F\x7F]/ restricted to the control characters of the model
ControlChars == {GS, TAB}

\* characters String.prototype.trim removes and parseInt skips
WhiteSpace == {" ", TAB}

\* JavaScript undefined, for a field that holds a string otherwise
undefined == <<"undefined">>

\* JavaScript null, for the expiryDate field
null == [kind |-> "null"]

DigitVal(c) ==
  CASE c = "0" -> 0 [] c = "1" -> 1 [] c = "2" -> 2 [] c = "3" -> 3
    [] c = "4" -> 4 [] c = "5" -> 5 [] c = "6" -> 6 [] c = "7" -> 7
    [] c = "8" -> 8 [] c = "9" -> 9

----------------------------------------------------------------------------
(* String primitives *)

\* String.prototype.substring(a, b) for 0 <= a: indices clamp to the length
substring(s, a, b) ==
  LET hi == IF b > Len(s) THEN Len(s) ELSE b
  IN IF a >= hi THEN <<>> ELSE SubSeq(s, a + 1, hi)

\* number of leading characters of s, from 0-indexed position i on, in set
RECURSIVE LeadRun(_, _, _)
LeadRun(s, set, i) ==
  IF i < Len(s) /\ s[i + 1] \in set THEN 1 + LeadRun(s, set, i + 1) ELSE 0

\* number of trailing characters of s[0..n) that are in set
RECURSIVE TrailRun(_, _, _)
TrailRun(s, set, n) ==
  IF n > 0 /\ s[n] \in set THEN 1 + TrailRun(s, set, n - 1) ELSE 0

\* removes the leading and the trailing run of characters of set
StripBoth(s, set) ==
  LET a == LeadRun(s, set, 0)
  IN IF a = Len(s) THEN <<>>
     ELSE substring(s, a, Len(s) - TrailRun(s, set, Len(s)))

\* String.prototype.replace(/x+$/, '') for the characters x of set
StripTrailing(s, set) == substring(s, 0, Len(s) - TrailRun(s, set, Len(s)))

\* String.prototype.trim
trim(s) == StripBoth(s, WhiteSpace)

----------------------------------------------------------------------------
(* AI registry *)

\* the registry as it would be were the expiry date entered without its
\* fixed length
GS1_AI_DEFINITIONSVariableExpiry ==
  (<<"0", "1">> :> [fixedLength |-> 14, variable |-> FALSE, name |-> "GTIN"]) @@
  (<<"1", "7">> :> [fixedLength |-> 0, variable |-> TRUE, name |-> "Expiry Date"]) @@
  (<<"1", "0">> :> [fixedLength |-> 0, variable |-> TRUE, name |-> "Batch/Lot"]) @@
  (<<"2", "1">> :> [fixedLength |-> 0, variable |-> TRUE, name |-> "Serial Number"]) @@
  (<<"1", "1">> :> [fixedLength |-> 6, variable |-> FALSE, name |-> "Production Date"]) @@
  (<<"3", "0">> :> [fixedLength |-> 0, variable |-> TRUE, name |-> "Variable Count"])

GS1_AI_DEFINITIONS ==
  (<<"0", "1">> :> [fixedLength |-> 14, variable |-> FALSE, name |-> "GTIN"]) @@
  (<<"1", "7">> :> [fixedLength |-> 6, variable |-> FALSE, name |-> "Expiry Date"]) @@
  (<<"1", "0">> :> [fixedLength |-> 0, variable |-> TRUE, name |-> "Batch/Lot"]) @@
  (<<"2", "1">> :> [fixedLength |-> 0, variable |-> TRUE, name |-> "Serial Number"]) @@
  (<<"1", "1">> :> [fixedLength |-> 6, variable |-> FALSE, name |-> "Production Date"]) @@
  (<<"3", "0">> :> [fixedLength |-> 0, variable |-> TRUE, name |-> "Variable Count"])

\* the registry probe: widths 2, 3, 4; <<>> stands for the null result
isKnownAI(str, position) ==
  LET twoDigit == substring(str, position, position + 2)
      threeDigit == substring(str, position, position + 3)
      fourDigit == substring(str, position, position + 4)
  IN IF twoDigit \in DOMAIN GS1_AI_DEFINITIONS THEN twoDigit
     ELSE IF threeDigit \in DOMAIN GS1_AI_DEFINITIONS THEN threeDigit
     ELSE IF fourDigit \in DOMAIN GS1_AI_DEFINITIONS THEN fourDigit
     ELSE <<>>

----------------------------------------------------------------------------
(* Normalizer *)

normalizeGs1Raw(r) ==
  LET replaced == [i \in 1..Len(r) |-> IF r[i] \in ControlChars THEN "|" ELSE r[i]]
      trimmed == trim(replaced)
  IN StripBoth(trimmed, {"|"})

----------------------------------------------------------------------------
(* Format classifier *)

\* /\(0[0-9]\)|\(1[0-7]\)|\(2[0-1]\)|\(3[0-9]\)/ matched at 0-indexed i
ParenPatternAt(s, i) ==
  /\ i + 4 <= Len(s)
  /\ s[i + 1] = "("
  /\ s[i + 4] = ")"
  /\ \/ s[i + 2] = "0" /\ s[i + 3] \in Digits
     \/ s[i + 2] = "1" /\ s[i + 3] \in {"0", "1", "2", "3", "4", "5", "6", "7"}
     \/ s[i + 2] = "2" /\ s[i + 3] \in {"0", "1"}
     \/ s[i + 2] = "3" /\ s[i + 3] \in Digits

hasParentheses(s) == \E i \in 0..(Len(s) - 4) : ParenPatternAt(s, i)

\* hasGtinPrefix as it would be with the quantifier one short: /^01\d{13}/
hasGtinPrefixShort(s) ==
  /\ Len(s) >= 15
  /\ s[1] = "0"
  /\ s[2] = "1"
  /\ \A i \in 3..15 : s[i] \in Digits

\* /^01\d{14}/
hasGtinPrefix(s) ==
  /\ Len(s) >= 16
  /\ s[1] = "0"
  /\ s[2] = "1"
  /\ \A i \in 3..16 : s[i] \in Digits

----------------------------------------------------------------------------
(* Parenthesized extractor *)

\* the regular expression  \(ai\)([^(|]+)  matches at 0-indexed i
MarkerMatchAt(input, ai, i) ==
  /\ i + 5 <= Len(input)
  /\ input[i + 1] = "("
  /\ input[i + 2] = ai[1]
  /\ input[i + 3] = ai[2]
  /\ input[i + 4] = ")"
  /\ input[i + 5] \notin {"(", "|"}

\* FirstMarkerMatch as it would be were the expression anchored with ^: the
\* marker is found only where the search starts
FirstMarkerMatchAnchored(input, ai, i) ==
  IF MarkerMatchAt(input, ai, i) THEN i ELSE -1

\* leftmost position at or after i where the expression matches, -1 if none
RECURSIVE FirstMarkerMatch(_, _, _)
FirstMarkerMatch(input, ai, i) ==
  IF i + 5 > Len(input) THEN -1
  ELSE IF MarkerMatchAt(input, ai, i) THEN i
  ELSE FirstMarkerMatch(input, ai, i + 1)

\* ValueRun as it would be were the capture group written (\w+): the run
\* also ends at a hyphen or a space
RECURSIVE ValueRunWord(_, _)
ValueRunWord(input, i) ==
  IF i < Len(input) /\ input[i + 1] \notin {"(", "|", "-", " "}
  THEN 1 + ValueRunWord(input, i + 1)
  ELSE 0

\* ValueRun as it would be were the capture group written ([^|]+): the run
\* ends at the separator only and swallows a following marker
RECURSIVE ValueRunToSeparator(_, _)
ValueRunToSeparator(input, i) ==
  IF i < Len(input) /\ input[i + 1] # "|"
  THEN 1 + ValueRunToSeparator(input, i + 1)
  ELSE 0

\* number of characters, from 0-indexed i on, that [^(|]+ consumes (greedy)
RECURSIVE ValueRun(_, _)
ValueRun(input, i) ==
  IF i < Len(input) /\ input[i + 1] \notin {"(", "|"}
  THEN 1 + ValueRun(input, i + 1)
  ELSE 0

\* extractAI as it would be without the .trim() on a variable-length value
extractAIUntrimmed(input, ai, fixedLength) ==
  LET m == FirstMarkerMatch(input, ai, 0)
      group == substring(input, m + 4, m + 4 + ValueRun(input, m + 4))
      value == IF fixedLength # 0
               THEN substring(group, 0, fixedLength)
               ELSE StripTrailing(group, {"|"})
  IN IF m = -1 THEN undefined
     ELSE IF value = <<>> THEN undefined
     ELSE value

\* fixedLength = 0 stands for the omitted third argument
extractAI(input, ai, fixedLength) ==
  LET m == FirstMarkerMatch(input, ai, 0)
      group == substring(input, m + 4, m + 4 + ValueRun(input, m + 4))
      value == IF fixedLength # 0
               THEN substring(group, 0, fixedLength)
               ELSE trim(StripTrailing(group, {"|"}))
  IN IF m = -1 THEN undefined
     ELSE IF value = <<>> THEN undefined
     ELSE value

----------------------------------------------------------------------------
(* Sequential tokenizer (bracketless form) *)

\* VariableEnd as in the earlier variant of the tokenizer, which probes for
\* the next AI from the first value character on
RECURSIVE VariableEndUnguarded(_, _, _)
VariableEndUnguarded(input, pos, endPos) ==
  IF endPos >= Len(input) THEN [endPos |-> endPos, foundSeparator |-> FALSE]
  ELSE IF input[endPos + 1] = "|" THEN [endPos |-> endPos, foundSeparator |-> TRUE]
  ELSE IF isKnownAI(input, endPos) # <<>>
       THEN [endPos |-> endPos, foundSeparator |-> FALSE]
  ELSE VariableEndUnguarded(input, pos, endPos + 1)

\* the inner scan of a variable-length value: the position it stops at and
\* whether it stopped on the separator
RECURSIVE VariableEnd(_, _, _)
VariableEnd(input, pos, endPos) ==
  IF endPos >= Len(input) THEN [endPos |-> endPos, foundSeparator |-> FALSE]
  ELSE IF input[endPos + 1] = "|" THEN [endPos |-> endPos, foundSeparator |-> TRUE]
  ELSE IF endPos > pos /\ isKnownAI(input, endPos) # <<>>
       THEN [endPos |-> endPos, foundSeparator |-> FALSE]
  ELSE VariableEnd(input, pos, endPos + 1)

\* the scanner state before the first iteration
ScanInit ==
  [pos |-> 0, stopped |-> FALSE, gtin |-> undefined, expiryDateRaw |-> undefined,
   batch |-> undefined, serial |-> undefined]

\* ScanStep as it would be with pos = endPos after every variable-length
\* value: the separator is not skipped
ScanStepKeepSeparator(input, st) ==
  LET ai == isKnownAI(input, st.pos)
      aiDef == GS1_AI_DEFINITIONS[ai]
      p == st.pos + Len(ai)
      ve == VariableEnd(input, p, p)
      value == IF ~aiDef.variable
               THEN substring(input, p, p + aiDef.fixedLength)
               ELSE substring(input, p, ve.endPos)
      newPos == IF ~aiDef.variable THEN p + aiDef.fixedLength
                ELSE ve.endPos
  IN IF ai = <<>> THEN [st EXCEPT !.stopped = TRUE]
     ELSE IF ai = <<"0", "1">> THEN [st EXCEPT !.pos = newPos, !.gtin = value]
     ELSE IF ai = <<"1", "7">> THEN [st EXCEPT !.pos = newPos, !.expiryDateRaw = value]
     ELSE IF ai = <<"1", "0">> THEN [st EXCEPT !.pos = newPos, !.batch = trim(value)]
     ELSE IF ai = <<"2", "1">> THEN [st EXCEPT !.pos = newPos, !.serial = trim(value)]
     ELSE [st EXCEPT !.pos = newPos]

\* ScanStep as it would be were the value of an AI with no field of its own
\* stored as the batch
ScanStepDefaultBatch(input, st) ==
  LET ai == isKnownAI(input, st.pos)
      aiDef == GS1_AI_DEFINITIONS[ai]
      p == st.pos + Len(ai)
      ve == VariableEnd(input, p, p)
      value == IF ~aiDef.variable
               THEN substring(input, p, p + aiDef.fixedLength)
               ELSE substring(input, p, ve.endPos)
      newPos == IF ~aiDef.variable THEN p + aiDef.fixedLength
                ELSE IF ve.foundSeparator THEN ve.endPos + 1 ELSE ve.endPos
  IN IF ai = <<>> THEN [st EXCEPT !.stopped = TRUE]
     ELSE IF ai = <<"0", "1">> THEN [st EXCEPT !.pos = newPos, !.gtin = value]
     ELSE IF ai = <<"1", "7">> THEN [st EXCEPT !.pos = newPos, !.expiryDateRaw = value]
     ELSE IF ai = <<"1", "0">> THEN [st EXCEPT !.pos = newPos, !.batch = trim(value)]
     ELSE IF ai = <<"2", "1">> THEN [st EXCEPT !.pos = newPos, !.serial = trim(value)]
     ELSE [st EXCEPT !.pos = newPos, !.batch = trim(value)]

\* ScanStep as it would be were the cursor left where it is after an AI
\* that has no field of its own
ScanStepStuck(input, st) ==
  LET ai == isKnownAI(input, st.pos)
      aiDef == GS1_AI_DEFINITIONS[ai]
      p == st.pos + Len(ai)
      ve == VariableEnd(input, p, p)
      value == IF ~aiDef.variable
               THEN substring(input, p, p + aiDef.fixedLength)
               ELSE substring(input, p, ve.endPos)
      newPos == IF ~aiDef.variable THEN p + aiDef.fixedLength
                ELSE IF ve.foundSeparator THEN ve.endPos + 1 ELSE ve.endPos
  IN IF ai = <<>> THEN [st EXCEPT !.stopped = TRUE]
     ELSE IF ai = <<"0", "1">> THEN [st EXCEPT !.pos = newPos, !.gtin = value]
     ELSE IF ai = <<"1", "7">> THEN [st EXCEPT !.pos = newPos, !.expiryDateRaw = value]
     ELSE IF ai = <<"1", "0">> THEN [st EXCEPT !.pos = newPos, !.batch = trim(value)]
     ELSE IF ai = <<"2", "1">> THEN [st EXCEPT !.pos = newPos, !.serial = trim(value)]
     ELSE st

\* one iteration of the while loop from scanner state st
ScanStep(input, st) ==
  LET ai == isKnownAI(input, st.pos)
      aiDef == GS1_AI_DEFINITIONS[ai]
      p == st.pos + Len(ai)
      ve == VariableEnd(input, p, p)
      value == IF ~aiDef.variable
               THEN substring(input, p, p + aiDef.fixedLength)
               ELSE substring(input, p, ve.endPos)
      newPos == IF ~aiDef.variable THEN p + aiDef.fixedLength
                ELSE IF ve.foundSeparator THEN ve.endPos + 1 ELSE ve.endPos
  IN IF ai = <<>> THEN [st EXCEPT !.stopped = TRUE]
     ELSE IF ai = <<"0", "1">> THEN [st EXCEPT !.pos = newPos, !.gtin = value]
     ELSE IF ai = <<"1", "7">> THEN [st EXCEPT !.pos = newPos, !.expiryDateRaw = value]
     ELSE IF ai = <<"1", "0">> THEN [st EXCEPT !.pos = newPos, !.batch = trim(value)]
     ELSE IF ai = <<"2", "1">> THEN [st EXCEPT !.pos = newPos, !.serial = trim(value)]
     ELSE [st EXCEPT !.pos = newPos]

\* ScanLoop as it would be were an unrecognized code skipped, one character
\* at a time, instead of ending the loop
RECURSIVE ScanLoopSkipUnknown(_, _)
ScanLoopSkipUnknown(input, st) ==
  IF st.pos >= Len(input) THEN st
  ELSE IF st.stopped
       THEN ScanLoopSkipUnknown(input, [st EXCEPT !.stopped = FALSE, !.pos = st.pos + 1])
  ELSE ScanLoopSkipUnknown(input, ScanStep(input, st))

\* the while loop: iterate until the cursor leaves the input or the probe fails
RECURSIVE ScanLoop(_, _)
ScanLoop(input, st) ==
  IF st.stopped \/ st.pos >= Len(input) THEN st
  ELSE ScanLoop(input, ScanStep(input, st))

parseNonParenthesizedGs1(input) == ScanLoop(input, ScanInit)

\* what one iteration captured: the AI found at the cursor, the 0-indexed
\* position of its value, the value as scanned, whether the scan of a
\* variable-length value stopped on the separator, and the scanner state
\* the iteration started from
NoCapture ==
  [ai |-> <<>>, from |-> 0, value |-> <<>>, foundSeparator |-> FALSE,
   before |-> ScanInit]

\* the capture of the iteration that starts in scanner state st
Capture(input, st) ==
  LET ai == isKnownAI(input, st.pos)
      aiDef == GS1_AI_DEFINITIONS[ai]
      p == st.pos + Len(ai)
      ve == VariableEnd(input, p, p)
  IN IF ai = <<>> THEN [NoCapture EXCEPT !.before = st]
     ELSE IF ~aiDef.variable
          THEN [ai |-> ai, from |-> p,
                value |-> substring(input, p, p + aiDef.fixedLength),
                foundSeparator |-> FALSE, before |-> st]
     ELSE [ai |-> ai, from |-> p, value |-> substring(input, p, ve.endPos),
           foundSeparator |-> ve.foundSeparator, before |-> st]

----------------------------------------------------------------------------
(* Date decoder *)

\* a JavaScript number is a record: NaN, or an integer
NaN == [isNaN |-> TRUE, val |-> 0]
Num(n) == [isNaN |-> FALSE, val |-> n]

\* value of the longest prefix of decimal digits of s from 0-indexed i on,
\* with acc the value read so far
RECURSIVE DigitsValue(_, _, _)
DigitsValue(s, i, acc) ==
  IF i < Len(s) /\ s[i + 1] \in Digits
  THEN DigitsValue(s, i + 1, 10 * acc + DigitVal(s[i + 1]))
  ELSE acc

\* parseInt(s, 10): leading white space is skipped, one sign is accepted,
\* the longest prefix of digits is read, the rest is ignored
parseInt(s) ==
  LET a == LeadRun(s, WhiteSpace, 0)
      signed == a < Len(s) /\ s[a + 1] \in {"+", "-"}
      b == IF signed THEN a + 1 ELSE a
      n == DigitsValue(s, b, 0)
  IN IF b < Len(s) /\ s[b + 1] \in Digits
     THEN Num(IF signed /\ s[a + 1] = "-" THEN 0 - n ELSE n)
     ELSE NaN

\* comparisons of JavaScript numbers: every comparison with NaN is false,
\* and NaN !== x is true
NumLt(a, b) == ~a.isNaN /\ ~b.isNaN /\ a.val < b.val
NumGt(a, b) == ~a.isNaN /\ ~b.isNaN /\ a.val > b.val
NumStrictNe(a, b) == a.isNaN \/ b.isNaN \/ a.val # b.val
NumAdd(a, b) == IF a.isNaN \/ b.isNaN THEN NaN ELSE Num(a.val + b.val)

IsLeapYear(y) == y % 4 = 0 /\ (y % 100 # 0 \/ y % 400 = 0)

\* days of month m (0-indexed, as Date counts months) of year y
DaysInMonth(y, m) ==
  IF m = 1 THEN (IF IsLeapYear(y) THEN 29 ELSE 28)
  ELSE IF m \in {3, 5, 8, 10} THEN 30
  ELSE 31

\* new Date(year, monthIndex, day) for 0 <= monthIndex <= 11 and 1 <= day:
\* a day past the end of the month rolls over into the following months;
\* a NaN argument gives the invalid Date
RECURSIVE RollOver(_, _, _)
RollOver(y, m, d) ==
  IF d <= DaysInMonth(y, m) THEN [kind |-> "date", year |-> y, month |-> m, date |-> d]
  ELSE IF m = 11 THEN RollOver(y + 1, 0, d - DaysInMonth(y, m))
  ELSE RollOver(y, m + 1, d - DaysInMonth(y, m))

NewDate(year, monthIndex, day) ==
  IF year.isNaN \/ monthIndex.isNaN \/ day.isNaN THEN [kind |-> "invalid"]
  ELSE RollOver(year.val, monthIndex.val, day.val)

getFullYear(d) == IF d.kind = "date" THEN Num(d.year) ELSE NaN
getMonth(d) == IF d.kind = "date" THEN Num(d.month) ELSE NaN
getDate(d) == IF d.kind = "date" THEN Num(d.date) ELSE NaN

\* CenturyYear as it would be with a sliding window: 50..99 read as 19YY
CenturyYearWindowed(yy) ==
  IF ~yy.isNaN /\ yy.val >= 50 THEN NumAdd(Num(1900), yy) ELSE NumAdd(Num(2000), yy)

\* const year = 2000 + yy
CenturyYear(yy) == NumAdd(Num(2000), yy)

parseYYMMDD(s) ==
  LET yy == parseInt(substring(s, 0, 2))
      mm == parseInt(substring(s, 2, 4))
      dd == parseInt(substring(s, 4, 6))
      year == CenturyYear(yy)
      date == NewDate(year, NumAdd(mm, Num(0 - 1)), dd)
  IN IF Len(s) # 6 THEN null
     ELSE IF NumLt(mm, Num(1)) \/ NumGt(mm, Num(12)) THEN null
     ELSE IF NumLt(dd, Num(1)) \/ NumGt(dd, Num(31)) THEN null
     ELSE IF \/ NumStrictNe(getFullYear(date), year)
             \/ NumStrictNe(getMonth(date), NumAdd(mm, Num(0 - 1)))
             \/ NumStrictNe(getDate(date), dd)
          THEN null
     ELSE date

\* the decimal digit of n in 0..9
DigitChar(n) ==
  CASE n = 0 -> "0" [] n = 1 -> "1" [] n = 2 -> "2" [] n = 3 -> "3"
    [] n = 4 -> "4" [] n = 5 -> "5" [] n = 6 -> "6" [] n = 7 -> "7"
    [] n = 8 -> "8" [] n = 9 -> "9"

----------------------------------------------------------------------------
(* Date formatters *)

\* String(n) for an integer n
RECURSIVE NatToString(_)
NatToString(n) ==
  IF n < 10 THEN <<DigitChar(n)>>
  ELSE NatToString(n \div 10) \o <<DigitChar(n % 10)>>

String(n) == IF n < 0 THEN <<"-">> \o NatToString(0 - n) ELSE NatToString(n)

RECURSIVE padStart(_, _, _)
padStart(s, targetLength, padString) ==
  IF Len(s) >= targetLength THEN s
  ELSE padStart(<<padString>> \o s, targetLength, padString)

\* a string where the same property may also hold a number
JsString(s) == [type |-> "string", chars |-> s]

\* formatDateForInput as it would be without the + 1 on getMonth()
formatDateForInputZeroBased(date) ==
  IF date.kind # "date" THEN <<>>
  ELSE LET year == getFullYear(date).val
           month == padStart(String(getMonth(date).val), 2, "0")
           day == padStart(String(getDate(date).val), 2, "0")
       IN String(year) \o <<"-">> \o month \o <<"-">> \o day

\* null, undefined and the invalid Date give ''
formatDateForInput(date) ==
  IF date.kind # "date" THEN <<>>
  ELSE LET year == getFullYear(date).val
           month == padStart(String(getMonth(date).val + 1), 2, "0")
           day == padStart(String(getDate(date).val), 2, "0")
       IN String(year) \o <<"-">> \o month \o <<"-">> \o day

\* month is a string, year the number getFullYear() returns
formatDateForMonthYear(date) ==
  IF date.kind # "date" THEN [month |-> <<>>, year |-> JsString(<<>>)]
  ELSE LET month == padStart(String(getMonth(date).val + 1), 2, "0")
           year == getFullYear(date)
       IN [month |-> month, year |-> year]

\* before any formatter has run
NoFormat ==
  [date |-> null, input |-> <<>>, monthYear |-> [month |-> <<>>, year |-> JsString(<<>>)]]

----------------------------------------------------------------------------
(* Result assembler *)

\* EmptyResult as it would be were the normalized string stored as raw
EmptyResultNormalized(r) ==
  [raw |-> normalizeGs1Raw(r), isGs1 |-> FALSE, expiryDate |-> null,
   gtin |-> undefined, expiryDateRaw |-> undefined, batch |-> undefined,
   serial |-> undefined]

\* the record parseGs1Data starts from; a key that is never assigned reads
\* as undefined
EmptyResult(r) ==
  [raw |-> r, isGs1 |-> FALSE, expiryDate |-> null, gtin |-> undefined,
   expiryDateRaw |-> undefined, batch |-> undefined, serial |-> undefined]

\* ExtractFields as it would be with the two branches tested in the other
\* order: the tokenizer whenever the GTIN prefix matched
ExtractFieldsPrefixFirst(r, normalized) ==
  LET parsed == parseNonParenthesizedGs1(normalized)
  IN IF hasGtinPrefix(normalized)
     THEN [raw |-> r, isGs1 |-> TRUE, expiryDate |-> null,
           gtin |-> parsed.gtin, expiryDateRaw |-> parsed.expiryDateRaw,
           batch |-> parsed.batch, serial |-> parsed.serial]
     ELSE [raw |-> r, isGs1 |-> TRUE, expiryDate |-> null,
           gtin |-> extractAI(normalized, <<"0", "1">>, 14),
           expiryDateRaw |-> extractAI(normalized, <<"1", "7">>, 6),
           batch |-> extractAI(normalized, <<"1", "0">>, 0),
           serial |-> extractAI(normalized, <<"2", "1">>, 0)]

\* the try block up to the date: the parenthesized extractor when the marker
\* pattern matched, the sequential tokenizer otherwise
ExtractFields(r, normalized) ==
  LET parsed == parseNonParenthesizedGs1(normalized)
  IN IF hasParentheses(normalized)
     THEN [EmptyResult(r) EXCEPT
             !.isGs1 = TRUE,
             !.gtin = extractAI(normalized, <<"0", "1">>, 14),
             !.expiryDateRaw = extractAI(normalized, <<"1", "7">>, 6),
             !.batch = extractAI(normalized, <<"1", "0">>, 0),
             !.serial = extractAI(normalized, <<"2", "1">>, 0)]
     ELSE [EmptyResult(r) EXCEPT
             !.isGs1 = TRUE,
             !.gtin = parsed.gtin,
             !.expiryDateRaw = parsed.expiryDateRaw,
             !.batch = parsed.batch,
             !.serial = parsed.serial]

\* no statement of the try block throws on a string, so the catch block is
\* never entered and the function always reaches its return
parseGs1Data(r) ==
  LET normalized == normalizeGs1Raw(r)
      fields == ExtractFields(r, normalized)
  IN IF Len(r) = 0 THEN EmptyResult(r)
     ELSE IF ~hasParentheses(normalized) /\ ~hasGtinPrefix(normalized)
          THEN EmptyResult(r)
     ELSE IF fields.expiryDateRaw # undefined /\ fields.expiryDateRaw # <<>>
             /\ Len(fields.expiryDateRaw) = 6
          THEN [fields EXCEPT !.expiryDate = parseYYMMDD(fields.expiryDateRaw)]
     ELSE fields

----------------------------------------------------------------------------
(* Scanned payloads *)

MaxPieces == 3

G1 == <<"0", "5", "0", "1", "2", "3", "4", "5", "6", "7", "8", "9", "0", "1">>
G2 == <<"0", "8", "7", "1", "2", "3", "4", "5", "6", "7", "8", "9", "0", "6">>

\* a linear (EAN-13) barcode
EAN13 == <<"5", "0", "1", "2", "3", "4", "5", "6", "7", "8", "9", "0", "0">>

D260430 == <<"2", "6", "0", "4", "3", "0">>
D240229 == <<"2", "4", "0", "2", "2", "9">>
D261332 == <<"2", "6", "1", "3", "3", "2">>
D300230 == <<"3", "0", "0", "2", "3", "0">>
D26s4s1 == <<"2", "6", " ", "4", " ", "1">>

GtinValues == {G1, G2}
ValidDates == {D260430, D240229}
DateValues == ValidDates \cup {D261332, D300230, D26s4s1}
BatchValues == {<<"L", "9">>, <<"B", "-", "A">>}
SerialValues == {<<"S", "7">>, <<"X">>}

\* the marker of AI code ai in the parenthesized and in the bracketless form
Marker(style, ai) == IF style = "paren" THEN <<"(">> \o ai \o <<")">> ELSE ai

Seg(style, ai, value) == Marker(style, ai) \o value

AI01 == <<"0", "1">>
AI17 == <<"1", "7">>
AI10 == <<"1", "0">>
AI21 == <<"2", "1">>
AI11 == <<"1", "1">>
AI30 == <<"3", "0">>

Styles == {"paren", "bare"}

RECURSIVE Flatten(_)
Flatten(ps) == IF ps = <<>> THEN <<>> ELSE Head(ps) \o Flatten(Tail(ps))

\* payloads laid out in the order 01, 17, 10, 21, each field optional, with a
\* separator policy and optional leading and trailing padding
SeparatorPolicies == {"none", "afterEach", "afterVariable", "afterFixed"}

Sep(policy, fixed, piece) ==
  IF piece = <<>> \/ policy = "none" THEN <<>>
  ELSE IF policy = "afterEach" THEN <<GS>>
  ELSE IF policy = "afterVariable" /\ ~fixed THEN <<GS>>
  ELSE IF policy = "afterFixed" /\ fixed THEN <<GS>>
  ELSE <<>>

LayoutsOf(style) ==
  { << lead,
       g, Sep(policy, TRUE, g),
       d, Sep(policy, TRUE, d),
       b, Sep(policy, FALSE, b),
       x, trail >> :
      lead \in {<<>>, <<GS>>, <<" ">>, <<GS, " ">>},
      g \in {<<>>} \cup {Seg(style, AI01, v) : v \in GtinValues \cup {<<"1", "2", "3">>}},
      d \in {<<>>} \cup {Seg(style, AI17, v) : v \in DateValues \cup {<<"2", "6", "0", "4">>}},
      b \in {<<>>} \cup {Seg(style, AI10, v) : v \in BatchValues \cup {<<>>}},
      x \in {<<>>} \cup {Seg(style, AI21, v) : v \in SerialValues \cup {<<>>}},
      policy \in SeparatorPolicies,
      trail \in {<<>>, <<GS>>} }

LayoutScans == UNION {LayoutsOf(style) : style \in Styles}

\* free-form payloads: up to MaxPieces pieces in any order
Pieces ==
  {Seg("bare", AI01, G1), Seg("bare", AI01, G2), Seg("bare", AI17, D260430),
   Seg("bare", AI17, D261332), Seg("bare", AI10, <<"L", "9">>), AI10,
   Seg("bare", AI21, <<"S", "7">>), Seg("bare", AI11, D240229),
   Seg("bare", AI30, <<"5">>),
   Seg("paren", AI01, G1), Seg("paren", AI17, D260430),
   Seg("paren", AI10, <<"L", "9">>), Seg("paren", AI21, <<"S", "7">>),
   Marker("paren", AI10), <<GS>>, <<"(">>, <<" ">>, <<"X">>, EAN13}

PieceScans == UNION {[1..n -> Pieces] : n \in 0..MaxPieces}

Scans == LayoutScans \cup PieceScans

----------------------------------------------------------------------------
(* The stock database: the tables the stock handlers read and write, and  *)
(* the clients of the connection pool behind db.query                      *)

\* Bounds of the stock model
MaxRequests == 2    \* requests served, one after another or overlapping
PoolSize == 2       \* clients the pool holds
MaxQuantity == 1    \* largest quantity or delta of a request
InitialStock == 1   \* on_hand of the one row the inventory starts with

Locations == {"A", "B"}       \* rows of table locations
UnknownLocation == "Z"        \* an id with no row in locations
Batches == {"b1"}             \* rows of table batches
UnknownBatch == "b9"          \* an id with no row in batches
Clients == 1..PoolSize
Requests == 1..MaxRequests

\* inventory has one row per (location_id, batch_id)
Key(locationId, batchId) == <<locationId, batchId>>

NoRows == [k \in {} |-> 0]

Over(f, g) ==
  [k \in DOMAIN f \cup DOMAIN g |-> IF k \in DOMAIN g THEN g[k] ELSE f[k]]

Put(f, k, v) == Over(f, [x \in {k} |-> v])

InitialInventory == Put(NoRows, Key("A", "b1"), InitialStock)

\* A client outside a transaction ("idle") writes straight to the tables;
\* inside one ("open") its writes are held back until COMMIT and dropped
\* by ROLLBACK; after a failed statement the transaction is "aborted"
NoTransaction == [state |-> "idle", inventory |-> NoRows, transactions |-> <<>>]

NoRequest == [kind |-> "none"]

Idle == [pc |-> "idle", request |-> NoRequest, rows |-> <<>>, statusCode |-> 0]

StockInit ==
  /\ inventory = InitialInventory
  /\ transactions = <<>>
  /\ conn = [c \in Clients |-> NoTransaction]
  /\ handler = [p \in Requests |-> Idle]

\* The rows of inventory a statement on client c sees: the committed rows
\* and the writes of the client's own open transaction
View(c) ==
  IF conn[c].state = "open" THEN Over(inventory, conn[c].inventory)
  ELSE inventory

\* A row written inside another client's unfinished transaction is locked:
\* a statement that writes it waits for that transaction to end
LockedByOther(c, k) ==
  \E d \in Clients \ {c} :
    conn[d].state # "idle" /\ k \in DOMAIN conn[d].inventory

\* What a statement leaves behind: the tables, the clients, the rows it
\* returns and whether it raised an error
Done(rows) ==
  [error |-> FALSE, rows |-> rows, inventory |-> inventory,
   transactions |-> transactions, conn |-> conn]

\* A statement that raises an error changes nothing, and aborts the
\* transaction of its client when one is open
Failed(c) ==
  [error |-> TRUE, rows |-> <<>>, inventory |-> inventory,
   transactions |-> transactions,
   conn |-> IF conn[c].state = "open"
            THEN [conn EXCEPT ![c].state = "aborted"] ELSE conn]

WriteRow(c, k, v) ==
  IF conn[c].state = "open"
  THEN [Done(<<>>) EXCEPT !.conn = [conn EXCEPT ![c].inventory = Put(@, k, v)]]
  ELSE [Done(<<>>) EXCEPT !.inventory = Put(inventory, k, v)]

\* BEGIN
Begin(c) ==
  IF conn[c].state = "idle"
  THEN [Done(<<>>) EXCEPT !.conn = [conn EXCEPT ![c].state = "open"]]
  ELSE IF conn[c].state = "open" THEN Done(<<>>) ELSE Failed(c)

\* COMMIT: the writes held back by the client's transaction reach the
\* tables; an aborted transaction is rolled back instead
Commit(c) ==
  IF conn[c].state = "open"
  THEN [Done(<<>>) EXCEPT
          !.inventory = Over(inventory, conn[c].inventory),
          !.transactions = transactions \o conn[c].transactions,
          !.conn = [conn EXCEPT ![c] = NoTransaction]]
  ELSE [Done(<<>>) EXCEPT !.conn = [conn EXCEPT ![c] = NoTransaction]]

\* ROLLBACK
Rollback(c) == [Done(<<>>) EXCEPT !.conn = [conn EXCEPT ![c] = NoTransaction]]

\* SELECT medication_id FROM batches WHERE id = $1
SelectBatch(c, batchId) ==
  IF conn[c].state = "aborted" THEN Failed(c)
  ELSE Done(IF batchId \in Batches THEN <<batchId>> ELSE <<>>)

\* SELECT on_hand FROM inventory WHERE location_id = $1 AND batch_id = $2
SelectOnHand(c, locationId, batchId) ==
  IF conn[c].state = "aborted" THEN Failed(c)
  ELSE Done(IF Key(locationId, batchId) \in DOMAIN View(c)
            THEN <<View(c)[Key(locationId, batchId)]>> ELSE <<>>)

\* INSERT INTO inventory (location_id, batch_id, on_hand) VALUES ($1, $2, $3):
\* fails on a location the table locations does not hold and on a row that
\* is already there
InsertInventory(c, locationId, batchId, onHand) ==
  IF \/ conn[c].state = "aborted"
     \/ locationId \notin Locations
     \/ Key(locationId, batchId) \in DOMAIN View(c)
  THEN Failed(c)
  ELSE WriteRow(c, Key(locationId, batchId), onHand)

\* INSERT INTO inventory ... VALUES ($1, $2, 0)
\* ON CONFLICT (location_id, batch_id) DO NOTHING
InsertInventoryOnConflictDoNothing(c, locationId, batchId) ==
  IF conn[c].state = "aborted" \/ locationId \notin Locations THEN Failed(c)
  ELSE IF Key(locationId, batchId) \in DOMAIN View(c) THEN Done(<<>>)
  ELSE WriteRow(c, Key(locationId, batchId), 0)

\* UPDATE inventory SET on_hand = on_hand + $1
\* WHERE location_id = $2 AND batch_id = $3: relative to the value the
\* row has when the statement runs; no row, no change
UpdateOnHand(c, delta, locationId, batchId) ==
  IF conn[c].state = "aborted" THEN Failed(c)
  ELSE IF Key(locationId, batchId) \notin DOMAIN View(c) THEN Done(<<>>)
  ELSE WriteRow(c, Key(locationId, batchId),
                View(c)[Key(locationId, batchId)] + delta)

\* INSERT INTO transactions (location_id, ..., batch_id, ..., delta, ...)
InsertTransaction(c, locationId, batchId, delta) ==
  IF conn[c].state = "aborted" \/ locationId \notin Locations THEN Failed(c)
  ELSE IF conn[c].state = "open"
  THEN [Done(<<>>) EXCEPT
          !.conn = [conn EXCEPT ![c].transactions =
                      Append(@, [location_id |-> locationId,
                                 batch_id |-> batchId, delta |-> delta])]]
  ELSE [Done(<<>>) EXCEPT
          !.transactions =
            Append(transactions, [location_id |-> locationId,
                                  batch_id |-> batchId, delta |-> delta])]

----------------------------------------------------------------------------
(* The decode call *)

NoResult == EmptyResult(<<>>)

Init ==
  /\ scan \in Scans
  /\ raw = Flatten(scan)
  /\ pc = "call"
  /\ result = NoResult
  /\ yymmdd = <<>>
  /\ expiry = null
  /\ formatted = NoFormat
  /\ scanner = ScanInit
  /\ last = NoCapture
  /\ iterations = 0
  /\ StockInit

\* a caller hands the scanned string to parseGs1Data and receives the record
Parse ==
  /\ pc = "call"
  /\ result' = parseGs1Data(raw)
  /\ pc' = "returned"
  /\ UNCHANGED <<scan, raw, yymmdd, expiry, formatted, scanner, last, iterations, stockVars>>

Next == Parse

Spec == Init /\ [][Next]_vars

----------------------------------------------------------------------------
(* The date decoder called on its own *)

\* months 00..MaxMonth and days 00..MaxDay are enumerated, for every year
MaxMonth == 13
MaxDay == 32

TwoDigits(n) == <<DigitChar(n \div 10), DigitChar(n % 10)>>

NumericDates ==
  {TwoDigits(y) \o TwoDigits(m) \o TwoDigits(d) :
     y \in 0..99, m \in 0..MaxMonth, d \in 0..MaxDay}

\* two-character fields that are not two digits
OddPairs ==
  {<<" ", "4">>, <<"4", " ">>, <<"-", "1">>, <<"+", "4">>, <<"A", "1">>,
   <<"1", "A">>, <<"|", "1">>, <<" ", " ">>}

MixedDates ==
  LET P == OddPairs \cup {<<"2", "6">>, <<"0", "4">>, <<"3", "1">>}
  IN {y \o m \o d : y \in P, m \in P, d \in P}

DateInputs == NumericDates \cup MixedDates

InitDate ==
  /\ scan = <<>>
  /\ raw = <<>>
  /\ result = NoResult
  /\ pc = "call"
  /\ yymmdd \in DateInputs
  /\ expiry = null
  /\ formatted = NoFormat
  /\ scanner = ScanInit
  /\ last = NoCapture
  /\ iterations = 0
  /\ StockInit

\* parseYYMMDD called on a six-character string
DecodeDate ==
  /\ pc = "call"
  /\ Len(yymmdd) = 6
  /\ expiry' = parseYYMMDD(yymmdd)
  /\ pc' = "returned"
  /\ UNCHANGED <<scan, raw, result, yymmdd, formatted, scanner, last, iterations, stockVars>>

\* the caller hands the decoded date, or a Date that is invalid, to both
\* formatters to fill the form fields
FormatDate ==
  /\ pc = "returned"
  /\ \E date \in {expiry, [kind |-> "invalid"]} :
       formatted' = [date |-> date,
                     input |-> formatDateForInput(date),
                     monthYear |-> formatDateForMonthYear(date)]
  /\ pc' = "formatted"
  /\ UNCHANGED <<scan, raw, result, yymmdd, expiry, scanner, last, iterations, stockVars>>

NextDate == DecodeDate \/ FormatDate

SpecDate == InitDate /\ [][NextDate]_vars

----------------------------------------------------------------------------
(* Properties of parseGs1Data *)

FieldNames ==
  {"raw", "isGs1", "expiryDate", "gtin", "expiryDateRaw", "batch", "serial"}

AllDigits(s) == \A i \in 1..Len(s) : s[i] \in Digits

DigitDates == {d \in DateValues : AllDigits(d)}

\* s contains "(" + two digits in the known AI ranges + ")"
ContainsParenAI(s) ==
  \E i \in 1..(Len(s) - 3) :
    /\ s[i] = "("
    /\ s[i + 3] = ")"
    /\ s[i + 2] \in Digits
    /\ \/ s[i + 1] \in {"0", "3"}
       \/ s[i + 1] = "1" /\ s[i + 2] \notin {"8", "9"}
       \/ s[i + 1] = "2" /\ s[i + 2] \in {"0", "1"}

\* s begins with "01" followed by 14 digits
BeginsWithGtin(s) ==
  /\ Len(s) >= 16
  /\ SubSeq(s, 1, 2) = <<"0", "1">>
  /\ AllDigits(SubSeq(s, 3, 16))

\* s contains the literal marker "(" ai ")"
ContainsMarker(s, ai) ==
  \E i \in 1..(Len(s) - 3) : SubSeq(s, i, i + 3) = <<"(">> \o ai \o <<")">>

NoControlChars(s) == \A i \in 1..Len(s) : s[i] \notin ControlChars

OnlyRawSet ==
  /\ result.isGs1 = FALSE
  /\ result.raw = raw
  /\ result.gtin = undefined
  /\ result.expiryDateRaw = undefined
  /\ result.batch = undefined
  /\ result.serial = undefined
  /\ result.expiryDate = null

\* C1: for every input string the call returns a record whose raw is the
\* unmodified input and whose isGs1 is a boolean
C1_AlwaysReturnsRecord ==
  pc = "returned" =>
    /\ DOMAIN result = FieldNames
    /\ result.raw = raw
    /\ result.isGs1 \in BOOLEAN

\* C1 witness: an input of control characters only has been decoded
C1_Witness ==
  /\ pc = "returned"
  /\ raw = <<GS>>
  /\ result.raw = <<GS>>
  /\ result.isGs1 = FALSE

\* C2: "01" G GS "17" D GS "10" B decodes to gtin G, expiryDateRaw D, batch B
\* and no serial (Scenario B)
C2_ScenarioB ==
  \A G \in GtinValues, D \in DigitDates, B \in BatchValues :
    (/\ pc = "returned"
     /\ raw = AI01 \o G \o <<GS>> \o AI17 \o D \o <<GS>> \o AI10 \o B)
    => /\ result.isGs1 = TRUE
       /\ result.gtin = G
       /\ result.expiryDateRaw = D
       /\ result.batch = B
       /\ result.serial = undefined

\* C3 as stated: an input with no control character, no parenthesized AI
\* pattern and not beginning with "01" + 14 digits gives isGs1 = FALSE with
\* only raw set
C3_Original ==
  (/\ pc = "returned"
   /\ NoControlChars(raw)
   /\ ~ContainsParenAI(raw)
   /\ ~BeginsWithGtin(raw))
  => OnlyRawSet

\* C3 amended: the same, the prefix condition being read on the input with
\* its surrounding white space, and then its leading and trailing "|", removed
C3_NonGs1 ==
  (/\ pc = "returned"
   /\ NoControlChars(raw)
   /\ ~ContainsParenAI(raw)
   /\ ~BeginsWithGtin(StripBoth(trim(raw), {"|"})))
  => OnlyRawSet

\* C3 witness: the linear barcode of Scenario C has been decoded
C3_Witness ==
  /\ pc = "returned"
  /\ raw = EAN13
  /\ OnlyRawSet

\* C4: the well-formed parenthesized input (01)G(17)D(10)B(21)S gives back
\* G, D, B and S exactly
C4_ParenRoundTrip ==
  \A G \in GtinValues, D \in DigitDates, B \in BatchValues, S \in SerialValues :
    (/\ pc = "returned"
     /\ raw = Seg("paren", AI01, G) \o Seg("paren", AI17, D)
                \o Seg("paren", AI10, B) \o Seg("paren", AI21, S))
    => /\ result.gtin = G
       /\ result.expiryDateRaw = D
       /\ result.batch = B
       /\ result.serial = S

\* C4 witness: such an input, with a hyphen in the batch, has been decoded
C4_Witness ==
  /\ pc = "returned"
  /\ raw = Seg("paren", AI01, G2) \o Seg("paren", AI17, D240229)
             \o Seg("paren", AI10, <<"B", "-", "A">>) \o Seg("paren", AI21, <<"X">>)
  /\ result.batch = <<"B", "-", "A">>
  /\ result.serial = <<"X">>

\* C5: when the normalized input matches both detection rules, every field is
\* what the parenthesized extractor gives, and is set only if its literal
\* marker occurs
C5_ParenthesizedWins ==
  LET n == normalizeGs1Raw(raw)
  IN (pc = "returned" /\ BeginsWithGtin(n) /\ ContainsParenAI(n))
     => /\ result.gtin = extractAI(n, AI01, 14)
        /\ result.expiryDateRaw = extractAI(n, AI17, 6)
        /\ result.batch = extractAI(n, AI10, 0)
        /\ result.serial = extractAI(n, AI21, 0)
        /\ result.gtin # undefined => ContainsMarker(n, AI01)
        /\ result.expiryDateRaw # undefined => ContainsMarker(n, AI17)
        /\ result.batch # undefined => ContainsMarker(n, AI10)
        /\ result.serial # undefined => ContainsMarker(n, AI21)

\* C5 witness: a bracketless GTIN followed by a parenthesized batch has been
\* decoded: the batch is set and the GTIN, which has no marker, is not
C5_Witness ==
  /\ pc = "returned"
  /\ raw = Seg("bare", AI01, G1) \o Seg("paren", AI10, <<"L", "9">>)
  /\ result.isGs1 = TRUE
  /\ result.gtin = undefined
  /\ result.batch = <<"L", "9">>

----------------------------------------------------------------------------
(* Properties of parseYYMMDD *)

\* the number written by the two digits of s at 1-indexed positions i, i + 1
TwoDigitValue(s, i) == 10 * DigitVal(s[i]) + DigitVal(s[i + 1])

\* days of month m (1..12) of year y in the Gregorian calendar
GregorianDays(y, m) ==
  IF m \in {4, 6, 9, 11} THEN 30
  ELSE IF m # 2 THEN 31
  ELSE IF y % 400 = 0 \/ (y % 4 = 0 /\ y % 100 # 0) THEN 29
  ELSE 28

\* s is six digits YYMMDD naming a real day of year 2000 + YY
IsCalendarDay(s) ==
  /\ Len(s) = 6
  /\ AllDigits(s)
  /\ TwoDigitValue(s, 3) \in 1..12
  /\ TwoDigitValue(s, 5) \in 1..GregorianDays(2000 + TwoDigitValue(s, 1), TwoDigitValue(s, 3))

\* C6: every six-character input that does not name a real calendar day of
\* year 2000 + YY decodes to null
C6_RejectsNonDates ==
  (pc = "returned" /\ ~IsCalendarDay(yymmdd)) => expiry = null

\* C7: six digits naming a real calendar day decode to the date with year
\* exactly 2000 + YY, month MM and day DD
C7_DecodesRealDays ==
  (pc = "returned" /\ IsCalendarDay(yymmdd))
  => expiry = [kind |-> "date",
               year |-> 2000 + TwoDigitValue(yymmdd, 1),
               month |-> TwoDigitValue(yymmdd, 3) - 1,
               date |-> TwoDigitValue(yymmdd, 5)]

\* C7 witness: "260430" has been decoded to 30 April 2026
C7_Witness ==
  /\ pc = "returned"
  /\ yymmdd = D260430
  /\ expiry = [kind |-> "date", year |-> 2026, month |-> 3, date |-> 30]

----------------------------------------------------------------------------
(* Properties of the returned fields *)

\* a payload in the layout order that starts with a GTIN field, carries the
\* six characters D as its AI 17 value, and has no separator directly after
\* a fixed-length field
CarriesDate(style, D) ==
  /\ Len(scan) = 9
  /\ scan[1] = <<>>
  /\ scan[2] \in {Seg(style, AI01, G) : G \in GtinValues}
  /\ scan[3] = <<>>
  /\ scan[4] = Seg(style, AI17, D)
  /\ scan[5] = <<>>

\* C8: six characters of AI 17 that do not form a valid date give
\* expiryDateRaw equal to them, expiryDate null, and gtin, batch and serial as
\* with a valid date in their place
C8_InvalidDateKeepsFields ==
  \A style \in Styles, D \in DateValues :
    (pc = "returned" /\ CarriesDate(style, D) /\ ~IsCalendarDay(D))
    => LET valid == parseGs1Data(Flatten([scan EXCEPT ![4] = Seg(style, AI17, D260430)]))
       IN /\ result.isGs1 = TRUE
          /\ result.expiryDateRaw = D
          /\ result.expiryDate = null
          /\ result.gtin = valid.gtin
          /\ result.batch = valid.batch
          /\ result.serial = valid.serial

\* C9: each of gtin, expiryDateRaw, batch and serial is absent or a
\* non-empty string
C9_NoEmptyField ==
  pc = "returned" =>
    \A f \in {"gtin", "expiryDateRaw", "batch", "serial"} :
      result[f] = undefined \/ result[f] # <<>>

\* C10: a gtin that is present is a string of exactly 14 decimal digits
C10_GtinFourteenDigits ==
  (pc = "returned" /\ result.gtin # undefined)
  => Len(result.gtin) = 14 /\ AllDigits(result.gtin)

\* C11: an expiryDateRaw that is present is exactly six characters long and
\* all of them are decimal digits, in both formats
C11_ExpirySixDigits ==
  (pc = "returned" /\ result.expiryDateRaw # undefined)
  => Len(result.expiryDateRaw) = 6 /\ AllDigits(result.expiryDateRaw)

----------------------------------------------------------------------------
(* Partial extraction (parenthesized form) *)

\* the four slots of a layout, their AI, their result field and a
\* well-formed value for each
LayoutSlots == {2, 4, 6, 8}

SlotAI(k) ==
  CASE k = 2 -> AI01 [] k = 4 -> AI17 [] k = 6 -> AI10 [] k = 8 -> AI21

SlotField(k) ==
  CASE k = 2 -> "gtin" [] k = 4 -> "expiryDateRaw" [] k = 6 -> "batch"
    [] k = 8 -> "serial"

SlotValue(k) ==
  CASE k = 2 -> G1 [] k = 4 -> D260430 [] k = 6 -> <<"L", "9">>
    [] k = 8 -> <<"S", "7">>

\* the layout sc with the missing parenthesized element of slot k put in,
\* followed by the characters s
WithSegment(sc, k, s) ==
  IF k = 8 THEN [sc EXCEPT ![k] = Seg("paren", SlotAI(k), SlotValue(k)) \o s]
  ELSE [sc EXCEPT ![k] = Seg("paren", SlotAI(k), SlotValue(k)), ![k + 1] = s]

\* C12: in the parenthesized form a field whose marker "(code)" does not
\* occur in the input is left unset, and the fields of the markers that do
\* occur have the values they have when the missing element is present
C12_PartialExtraction ==
  (pc = "returned" /\ hasParentheses(normalizeGs1Raw(raw))) =>
    /\ \A k \in LayoutSlots :
         ~ContainsMarker(raw, SlotAI(k)) => result[SlotField(k)] = undefined
    /\ Len(scan) = 9 =>
         \A k \in LayoutSlots, s \in {<<>>, <<GS>>} :
           scan[k] = <<>> =>
             LET full == parseGs1Data(Flatten(WithSegment(scan, k, s)))
             IN /\ \A j \in LayoutSlots \ {k} :
                     result[SlotField(j)] = full[SlotField(j)]
                /\ k # 4 => result.expiryDate = full.expiryDate

\* Scenario D: product code and expiry only
C12_Witness ==
  /\ pc = "returned"
  /\ raw = Seg("paren", AI01, G2) \o Seg("paren", AI17, D260430)
  /\ result.gtin = G2
  /\ result.expiryDateRaw = D260430
  /\ result.batch = undefined
  /\ result.serial = undefined

----------------------------------------------------------------------------
(* Properties of the formatters *)

----------------------------------------------------------------------------
(* Properties of the parenthesized extractor *)

\* 0-indexed position of the first occurrence of the literal marker in s
FirstLiteralMarker(s, ai) ==
  CHOOSE i \in 0..(Len(s) - 4) :
    /\ SubSeq(s, i + 1, i + 4) = <<"(">> \o ai \o <<")">>
    /\ \A j \in 0..(i - 1) : SubSeq(s, j + 1, j + 4) # <<"(">> \o ai \o <<")">>

FixedWidth(k) == GS1_AI_DEFINITIONS[SlotAI(k)].fixedLength

\* C15: in the parenthesized form, when the marker "(01)" or "(17)" is
\* present the extracted value is exactly the next 14 or 6 characters after
\* the marker, whatever they are, a "(" or the separator included
C15_FixedLengthSpan ==
  (pc = "returned" /\ hasParentheses(normalizeGs1Raw(raw))) =>
    \A k \in {2, 4} :
      LET n == normalizeGs1Raw(raw)
          m == FirstLiteralMarker(n, SlotAI(k))
      IN (ContainsMarker(n, SlotAI(k)) /\ m + 4 + FixedWidth(k) <= Len(n))
         => result[SlotField(k)] = SubSeq(n, m + 5, m + 4 + FixedWidth(k))

\* the characters of s from 0-indexed i up to, and excluding, the first "("
\* or separator, or to the end of s
RunUpTo(s, i) ==
  LET e == CHOOSE j \in i..Len(s) :
             /\ j = Len(s) \/ s[j + 1] \in {"(", "|"}
             /\ \A h \in i..(j - 1) : s[h + 1] \notin {"(", "|"}
  IN SubSeq(s, i + 1, e)

\* the value the claim gives the marker at 0-indexed m: the run after it,
\* trailing separators and surrounding white space removed, absent if empty
VariableValueAt(s, m) ==
  LET v == trim(StripTrailing(RunUpTo(s, m + 4), {"|"}))
  IN IF v = <<>> THEN undefined ELSE v

\* C16 as stated: the value of "(10)" or "(21)" is the run that follows the
\* marker, taken at the marker's first occurrence
C16_Original ==
  (pc = "returned" /\ hasParentheses(normalizeGs1Raw(raw))) =>
    \A k \in {6, 8} :
      LET n == normalizeGs1Raw(raw)
      IN ContainsMarker(n, SlotAI(k))
         => result[SlotField(k)] = VariableValueAt(n, FirstLiteralMarker(n, SlotAI(k)))

\* the marker occurs at 0-indexed i directly followed by a character that is
\* neither "(" nor the separator
ValuedMarkerAt(s, ai, i) ==
  /\ i + 5 <= Len(s)
  /\ SubSeq(s, i + 1, i + 4) = <<"(">> \o ai \o <<")">>
  /\ s[i + 5] \notin {"(", "|"}

\* C16: the value of "(10)" or "(21)" is the run that follows the first
\* occurrence of the marker that a value character directly follows, up to
\* the first "(" or separator, trimmed; the field is absent if there is no
\* such occurrence or the value is empty after trimming
C16_VariableLengthRun ==
  (pc = "returned" /\ hasParentheses(normalizeGs1Raw(raw))) =>
    \A k \in {6, 8} :
      LET n == normalizeGs1Raw(raw)
          ms == {i \in 0..(Len(n) - 5) : ValuedMarkerAt(n, SlotAI(k), i)}
          m == CHOOSE i \in ms : \A j \in ms : i <= j
      IN result[SlotField(k)] = IF ms = {} THEN undefined ELSE VariableValueAt(n, m)

\* a batch value followed by a space and the serial marker is stored trimmed
C16_Witness ==
  /\ pc = "returned"
  /\ raw = <<"(", "1", "0", ")", "L", "9", " ", "(", "2", "1", ")", "S", "7">>
  /\ result.batch = <<"L", "9">>
  /\ result.serial = <<"S", "7">>

----------------------------------------------------------------------------
(* The sequential tokenizer, one loop iteration at a time *)

\* the string parseGs1Data hands to the tokenizer
tokenizerInput == normalizeGs1Raw(raw)

\* payloads that reach the tokenizer: GTIN prefix and no marker pattern
InitScan ==
  /\ scan \in Scans
  /\ raw = Flatten(scan)
  /\ hasGtinPrefix(normalizeGs1Raw(raw))
  /\ ~hasParentheses(normalizeGs1Raw(raw))
  /\ pc = "scanning"
  /\ result = [EmptyResult(raw) EXCEPT !.isGs1 = TRUE]
  /\ yymmdd = <<>>
  /\ expiry = null
  /\ formatted = NoFormat
  /\ scanner = ScanInit
  /\ last = NoCapture
  /\ iterations = 0
  /\ StockInit

\* one pass through the body of the while loop
Iterate ==
  /\ pc = "scanning"
  /\ ~scanner.stopped
  /\ scanner.pos < Len(tokenizerInput)
  /\ scanner' = ScanStep(tokenizerInput, scanner)
  /\ last' = Capture(tokenizerInput, scanner)
  /\ iterations' = iterations + 1
  /\ UNCHANGED <<scan, raw, result, pc, yymmdd, expiry, formatted, stockVars>>

\* the loop is left, the tokenizer returns and parseGs1Data its record
Return ==
  /\ pc = "scanning"
  /\ scanner.stopped \/ scanner.pos >= Len(tokenizerInput)
  /\ result' = parseGs1Data(raw)
  /\ pc' = "returned"
  /\ UNCHANGED <<scan, raw, yymmdd, expiry, formatted, scanner, last, iterations, stockVars>>

NextScan == Iterate \/ Return

SpecScan == InitScan /\ [][NextScan]_vars

----------------------------------------------------------------------------
(* Properties of the sequential tokenizer *)

\* the last iteration captured the value of a variable-length AI
CapturedVariable == last.ai # <<>> /\ GS1_AI_DEFINITIONS[last.ai].variable

\* ... and the value was ended by the recognition of an AI code
EndedByRecognition ==
  /\ CapturedVariable
  /\ ~last.foundSeparator
  /\ scanner.pos < Len(tokenizerInput)

\* ... and the AI's code was directly followed by a registry code
FollowedByCode == CapturedVariable /\ isKnownAI(tokenizerInput, last.from) # <<>>

\* C17 as stated: a value ended by AI recognition has length >= 1, and a
\* variable-length AI directly followed by a recognized AI code is never
\* captured as a zero- or one-character value
C17_Original ==
  /\ EndedByRecognition =>
       Len(last.value) >= 1 /\ isKnownAI(tokenizerInput, scanner.pos) # <<>>
  /\ FollowedByCode => Len(last.value) >= 2

\* C17: a value ended by AI recognition ends strictly after its first
\* character and so has length >= 1, and a variable-length AI directly
\* followed by a recognized AI code is never captured as a zero-length value
C17_ZeroLengthGuard ==
  /\ EndedByRecognition =>
       Len(last.value) >= 1 /\ isKnownAI(tokenizerInput, scanner.pos) # <<>>
  /\ FollowedByCode => Len(last.value) >= 1

\* "10" directly followed by "01": the probe one character into the value
\* reads "10", and the batch is captured as "0"
C17_Witness ==
  /\ raw = Seg("bare", AI01, G1) \o AI10 \o Seg("bare", AI01, G2)
  /\ last.ai = AI10
  /\ EndedByRecognition
  /\ FollowedByCode
  /\ last.value = <<"0">>
  /\ scanner.batch = <<"0">>

\* C18: once the probe at the cursor has found no AI code the scanner never
\* changes again, cursor and fields alike, and the record returned carries
\* every field captured up to then, unchanged
C18_StopIsFinal ==
  [][scanner.stopped =>
       /\ scanner' = scanner
       /\ pc' = "returned" =>
            \A f \in {"gtin", "expiryDateRaw", "batch", "serial"} :
              result'[f] = scanner[f]]_vars

\* the separator after the GTIN stops the scan with the batch element unread
C18_Witness ==
  /\ pc = "returned"
  /\ raw = Seg("bare", AI01, G1) \o <<GS>> \o Seg("bare", AI10, <<"L", "9">>)
  /\ scanner.stopped
  /\ scanner.pos = 16
  /\ result.gtin = G1
  /\ result.batch = undefined

\* 0-indexed position just after the value the last iteration captured
ValueEnd == last.from + Len(last.value)

\* C19: a variable-length value ended by the separator excludes it and
\* leaves the cursor just after it; one ended by AI recognition or by the
\* end of the input leaves the cursor exactly at the end of the value
C19_SeparatorRule ==
  CapturedVariable =>
    /\ last.value = SubSeq(tokenizerInput, last.from + 1, ValueEnd)
    /\ \A i \in 1..Len(last.value) : last.value[i] # "|"
    /\ IF last.foundSeparator
       THEN /\ ValueEnd < Len(tokenizerInput)
            /\ tokenizerInput[ValueEnd + 1] = "|"
            /\ scanner.pos = ValueEnd + 1
       ELSE /\ scanner.pos = ValueEnd
            /\ \/ ValueEnd = Len(tokenizerInput)
               \/ isKnownAI(tokenizerInput, ValueEnd) # <<>>

\* batch "L9", a separator, then the serial element: the cursor is on "21"
C19_Witness ==
  /\ raw = Seg("bare", AI01, G1) \o Seg("bare", AI10, <<"L", "9">>) \o <<GS>>
             \o Seg("bare", AI21, <<"S", "7">>)
  /\ last.ai = AI10
  /\ last.foundSeparator
  /\ last.value = <<"L", "9">>
  /\ scanner.batch = <<"L", "9">>
  /\ scanner.pos = 21
  /\ isKnownAI(tokenizerInput, scanner.pos) = AI21

\* the four fields of a scanner state
CapturedFields(s) ==
  [gtin |-> s.gtin, expiryDateRaw |-> s.expiryDateRaw, batch |-> s.batch,
   serial |-> s.serial]

\* s without its characters at the 0-indexed positions a .. b - 1
Cut(s, a, b) == SubSeq(s, 1, a) \o SubSeq(s, b + 1, Len(s))

\* the sequence sc without its k-th element
Without(sc, k) == SubSeq(sc, 1, k - 1) \o SubSeq(sc, k + 1, Len(sc))

\* the last iteration read an AI of the registry that has no output field
CapturedUnused == last.ai # <<>> /\ last.ai \notin {AI01, AI17, AI10, AI21}

\* well-formed bracketless elements, and those of the AIs without a field
FieldElements ==
  {Seg("bare", AI01, G1), Seg("bare", AI01, G2), Seg("bare", AI17, D260430),
   Seg("bare", AI17, D261332), Seg("bare", AI10, <<"L", "9">>),
   Seg("bare", AI21, <<"S", "7">>)}

UnusedElements == {Seg("bare", AI11, D240229), Seg("bare", AI30, <<"5">>)}

C21_TokenizerTerminates ==
  [][iterations' # iterations =>
       /\ iterations' = iterations + 1
       /\ \/ scanner'.stopped /\ scanner'.pos = scanner.pos
          \/ /\ last'.ai # <<>>
             /\ Len(last'.ai) >= 2
             /\ scanner'.pos >= scanner.pos + Len(last'.ai)
             /\ last'.from = scanner.pos + Len(last'.ai)
             /\ scanner'.pos >= last'.from + Len(last'.value)
       /\ 2 * iterations' <= Len(tokenizerInput)]_vars

\* four elements are read in four iterations and the call returns
C21_Witness ==
  /\ pc = "returned"
  /\ raw = Seg("bare", AI01, G1) \o Seg("bare", AI17, D260430)
             \o Seg("bare", AI10, <<"L", "9">>) \o <<GS>>
             \o Seg("bare", AI21, <<"S", "7">>)
  /\ iterations = 4
  /\ scanner.pos = Len(raw)
  /\ ~scanner.stopped

----------------------------------------------------------------------------
(* Properties of the normalizer *)

\* C22: the normalizer's output has no control character, neither begins
\* nor ends with the separator, and is empty when the input is empty or
\* made of control characters and white space only
C22_NormalizerOutput ==
  pc = "returned" =>
    LET n == normalizeGs1Raw(raw)
    IN /\ NoControlChars(n)
       /\ n # <<>> => n[1] # "|" /\ n[Len(n)] # "|"
       /\ (\A i \in 1..Len(raw) : raw[i] \in ControlChars \cup WhiteSpace)
            => n = <<>>

\* C23: normalizing twice gives what normalizing once gives, and the
\* normalized string neither begins nor ends with white space
C23_NormalizeIdempotent ==
  pc = "returned" =>
    LET n == normalizeGs1Raw(raw)
    IN /\ normalizeGs1Raw(n) = n
       /\ n # <<>> => n[1] \notin WhiteSpace /\ n[Len(n)] \notin WhiteSpace

----------------------------------------------------------------------------
(* Properties of the bracketless form *)

\* C24: for an input classified as bracketless the returned gtin is the 14
\* digits that follow the leading "01" of the normalized input
C24_GtinIsAnchor ==
  LET n == normalizeGs1Raw(raw)
  IN (pc = "returned" /\ ~hasParentheses(n) /\ hasGtinPrefix(n))
     => result.gtin = SubSeq(n, 3, 16)

----------------------------------------------------------------------------
(* Properties of the decoded expiry date *)

\* C25: expiryDate is a date only if expiryDateRaw is present and is six
\* decimal digits, and then its year, month and day are 2000 + YY, MM and
\* DD of those digits; otherwise it is the null sentinel
C25_ExpiryDateOnlyFromDigits ==
  pc = "returned" =>
    /\ result.expiryDate.kind \in {"date", "null"}
    /\ result.expiryDate.kind = "date" =>
         /\ result.expiryDateRaw # undefined
         /\ Len(result.expiryDateRaw) = 6
         /\ AllDigits(result.expiryDateRaw)
         /\ result.expiryDate.year = 2000 + TwoDigitValue(result.expiryDateRaw, 1)
         /\ result.expiryDate.month + 1 = TwoDigitValue(result.expiryDateRaw, 3)
         /\ result.expiryDate.date = TwoDigitValue(result.expiryDateRaw, 5)

----------------------------------------------------------------------------
(* Order of the parenthesized elements *)

\* well-formed parenthesized elements: the value has the AI's length, or is
\* not empty, and holds neither "(" nor the separator
WellFormedElements ==
  {Seg("paren", AI01, v) : v \in GtinValues}
    \cup {Seg("paren", AI17, v) : v \in DateValues}
    \cup {Seg("paren", AI10, v) : v \in BatchValues}
    \cup {Seg("paren", AI21, v) : v \in SerialValues}

\* the elements of a scan that are not empty, in their order
NonEmptyPieces(sc) == SelectSeq(sc, LAMBDA piece : piece # <<>>)

\* every rearrangement of the sequence segs
Rearrangements(segs) ==
  {[i \in 1..Len(segs) |-> segs[f[i]]] :
     f \in {g \in [1..Len(segs) -> 1..Len(segs)] :
              \A a, b \in 1..Len(segs) : a # b => g[a] # g[b]}}

\* C26: a payload of well-formed parenthesized elements, each AI at most
\* once, gives the same gtin, expiryDateRaw, expiryDate, batch and serial in
\* every order of its elements
C26_OrderIndependent ==
  LET segs == NonEmptyPieces(scan)
  IN (/\ pc = "returned"
      /\ segs # <<>>
      /\ \A i \in 1..Len(segs) : segs[i] \in WellFormedElements
      /\ \A i, j \in 1..Len(segs) :
           i # j => SubSeq(segs[i], 1, 4) # SubSeq(segs[j], 1, 4))
     => \A other \in Rearrangements(segs) :
          LET r == parseGs1Data(Flatten(other))
          IN \A f \in {"gtin", "expiryDateRaw", "expiryDate", "batch", "serial"} :
               r[f] = result[f]

\* serial, batch, expiry and product code in the reverse of the usual order
C26_Witness ==
  /\ pc = "returned"
  /\ scan = <<Seg("paren", AI21, <<"S", "7">>), Seg("paren", AI10, <<"L", "9">>),
              Seg("paren", AI01, G1)>>
  /\ result.gtin = G1
  /\ result.batch = <<"L", "9">>
  /\ result.serial = <<"S", "7">>

----------------------------------------------------------------------------
(* Round trip of the standard bracketless form *)

\* no position of the value v, from its second character on, begins a
\* registry code when v is followed by the characters next
FreeOfCodes(v, next) ==
  \A i \in 2..(Len(v \o next) - 1) :
    i <= Len(v) => SubSeq(v \o next, i, i + 1) \notin DOMAIN GS1_AI_DEFINITIONS

\* the payload "01" G "17" D "10" B GS "21" S
StandardBracketless(G, D, B, S) ==
  <<<<>>, Seg("bare", AI01, G), <<>>, Seg("bare", AI17, D), <<>>,
    Seg("bare", AI10, B), <<GS>>, Seg("bare", AI21, S), <<>>>>

\* C27: the payload "01" G "17" D "10" B GS "21" S, with G 14 digits, D 6
\* digits, B and S non-empty without separator or surrounding white space
\* and with no registry code from their second character on, is decoded to
\* gtin = G, expiryDateRaw = D, batch = B and serial = S
C27_BracketlessRoundTrip ==
  \A G \in GtinValues, D \in DigitDates, B \in BatchValues, S \in SerialValues :
    (/\ pc = "returned"
     /\ scan = StandardBracketless(G, D, B, S)
     /\ Len(G) = 14 /\ AllDigits(G) /\ Len(D) = 6
     /\ B # <<>> /\ S # <<>> /\ trim(B) = B /\ trim(S) = S
     /\ \A i \in 1..Len(B) : B[i] # "|"
     /\ \A i \in 1..Len(S) : S[i] # "|"
     /\ FreeOfCodes(B, <<"|">>) /\ FreeOfCodes(S, <<>>))
    => /\ result.isGs1 = TRUE
       /\ result.gtin = G
       /\ result.expiryDateRaw = D
       /\ result.batch = B
       /\ result.serial = S

C27_Witness ==
  /\ pc = "returned"
  /\ scan = StandardBracketless(G2, D240229, <<"B", "-", "A">>, <<"X">>)
  /\ result.gtin = G2
  /\ result.expiryDateRaw = D240229
  /\ result.batch = <<"B", "-", "A">>
  /\ result.serial = <<"X">>

----------------------------------------------------------------------------
(* The stock handlers.  Every await db.query(...) is one step: the pool   *)
(* hands the query to one of its clients, and the steps of requests that  *)
(* are served at the same time interleave.                                 *)

AdjustRequests ==
  [kind : {"adjust"}, locationId : Locations,
   batchId : Batches \cup {UnknownBatch},
   delta : (-MaxQuantity..MaxQuantity) \ {0}]

TransferRequests ==
  [kind : {"transfer"}, batchId : Batches \cup {UnknownBatch},
   sourceLocationId : Locations,
   targetLocationId : Locations \cup {UnknownLocation},
   quantity : 0..MaxQuantity]

\* The handler resumes after an awaited query: the tables and clients are
\* as the statement left them; an error passes control to the catch block
Await(p, out, next) ==
  /\ inventory' = out.inventory
  /\ transactions' = out.transactions
  /\ conn' = out.conn
  /\ handler' = [handler EXCEPT
                   ![p].pc = IF out.error THEN "catch" ELSE next,
                   ![p].rows = IF out.error THEN @ ELSE out.rows]
  /\ UNCHANGED parserVars

\* return { statusCode, ... }
Respond(p, out, statusCode) ==
  /\ inventory' = out.inventory
  /\ transactions' = out.transactions
  /\ conn' = out.conn
  /\ handler' = [handler EXCEPT ![p].pc = "done", ![p].statusCode = statusCode]
  /\ UNCHANGED parserVars

At(p, kind, label) ==
  handler[p].request.kind = kind /\ handler[p].pc = label

\* stock-adjust: the request is parsed and its fields are there
AdjustReceive(p) ==
  /\ handler[p].pc = "idle"
  /\ \E request \in AdjustRequests :
       handler' = [handler EXCEPT ![p].request = request, ![p].pc = "begin"]
  /\ UNCHANGED <<parserVars, inventory, transactions, conn>>

\* await db.query('BEGIN'), outside the inner try
AdjustBegin(p, c) ==
  /\ At(p, "adjust", "begin")
  /\ IF Begin(c).error THEN Respond(p, Begin(c), 500)
     ELSE Await(p, Begin(c), "batch")

\* the batch lookup; no batch: ROLLBACK and 400
AdjustSelectBatch(p, c) ==
  /\ At(p, "adjust", "batch")
  /\ LET out == SelectBatch(c, handler[p].request.batchId)
     IN Await(p, out, IF Len(out.rows) = 0 THEN "reject" ELSE "on_hand")

\* the read of the current on_hand and the check of the new quantity
AdjustSelectOnHand(p, c) ==
  /\ At(p, "adjust", "on_hand")
  /\ LET out == SelectOnHand(c, handler[p].request.locationId,
                             handler[p].request.batchId)
     IN Await(p, out,
              IF Len(out.rows) = 0 THEN "insert"
              ELSE IF out.rows[1] + handler[p].request.delta < 0 THEN "reject"
              ELSE "update")

\* no row yet: a new one with on_hand = delta
AdjustInsert(p, c) ==
  /\ At(p, "adjust", "insert")
  /\ ~LockedByOther(c, Key(handler[p].request.locationId,
                           handler[p].request.batchId))
  /\ Await(p, InsertInventory(c, handler[p].request.locationId,
                              handler[p].request.batchId,
                              handler[p].request.delta), "transaction")

\* a row is there: on_hand = on_hand + delta
AdjustUpdate(p, c) ==
  /\ At(p, "adjust", "update")
  /\ ~LockedByOther(c, Key(handler[p].request.locationId,
                           handler[p].request.batchId))
  /\ Await(p, UpdateOnHand(c, handler[p].request.delta,
                           handler[p].request.locationId,
                           handler[p].request.batchId), "transaction")

\* the ledger row
AdjustInsertTransaction(p, c) ==
  /\ At(p, "adjust", "transaction")
  /\ Await(p, InsertTransaction(c, handler[p].request.locationId,
                                handler[p].request.batchId,
                                handler[p].request.delta), "commit")

\* COMMIT and 200
AdjustCommit(p, c) ==
  /\ At(p, "adjust", "commit")
  /\ Respond(p, Commit(c), 200)

\* ROLLBACK and 400, for a batch that is not there or a quantity below zero
AdjustReject(p, c) ==
  /\ At(p, "adjust", "reject")
  /\ Respond(p, Rollback(c), 400)

\* the catch block: ROLLBACK, rethrow, and the outer catch answers 500
AdjustCatch(p, c) ==
  /\ At(p, "adjust", "catch")
  /\ Respond(p, Rollback(c), 500)

\* stock-transfer: the request is parsed; a quantity that is not a
\* positive integer is answered 400 before any query
TransferReceive(p) ==
  /\ handler[p].pc = "idle"
  /\ \E request \in TransferRequests :
       handler' = [handler EXCEPT
                     ![p].request = request,
                     ![p].pc = IF request.quantity <= 0 THEN "done" ELSE "begin",
                     ![p].statusCode = IF request.quantity <= 0 THEN 400 ELSE 0]
  /\ UNCHANGED <<parserVars, inventory, transactions, conn>>

\* await db.query('BEGIN'), outside the inner try
TransferBegin(p, c) ==
  /\ At(p, "transfer", "begin")
  /\ IF Begin(c).error THEN Respond(p, Begin(c), 500)
     ELSE Await(p, Begin(c), "batch")

\* the batch lookup; no batch: ROLLBACK and 400
TransferSelectBatch(p, c) ==
  /\ At(p, "transfer", "batch")
  /\ LET out == SelectBatch(c, handler[p].request.batchId)
     IN Await(p, out, IF Len(out.rows) = 0 THEN "reject" ELSE "source")

\* step 1: the read of the source on_hand and the check against quantity
TransferCheckSource(p, c) ==
  /\ At(p, "transfer", "source")
  /\ LET out == SelectOnHand(c, handler[p].request.sourceLocationId,
                             handler[p].request.batchId)
     IN Await(p, out,
              IF Len(out.rows) = 0 THEN "reject"
              ELSE IF out.rows[1] < handler[p].request.quantity THEN "reject"
              ELSE "decrease")

\* step 2: on_hand = on_hand - quantity at the source
TransferDecrease(p, c) ==
  /\ At(p, "transfer", "decrease")
  /\ ~LockedByOther(c, Key(handler[p].request.sourceLocationId,
                           handler[p].request.batchId))
  /\ Await(p, UpdateOnHand(c, -handler[p].request.quantity,
                           handler[p].request.sourceLocationId,
                           handler[p].request.batchId), "out")

\* step 3: the outgoing ledger row
TransferLogOut(p, c) ==
  /\ At(p, "transfer", "out")
  /\ Await(p, InsertTransaction(c, handler[p].request.sourceLocationId,
                                handler[p].request.batchId,
                                -handler[p].request.quantity), "target")

\* step 4: the target row is made sure of
TransferEnsureTarget(p, c) ==
  /\ At(p, "transfer", "target")
  /\ ~LockedByOther(c, Key(handler[p].request.targetLocationId,
                           handler[p].request.batchId))
  /\ Await(p, InsertInventoryOnConflictDoNothing(
                c, handler[p].request.targetLocationId,
                handler[p].request.batchId), "increase")

\* step 4, second query: on_hand = on_hand + quantity at the target
TransferIncrease(p, c) ==
  /\ At(p, "transfer", "increase")
  /\ ~LockedByOther(c, Key(handler[p].request.targetLocationId,
                           handler[p].request.batchId))
  /\ Await(p, UpdateOnHand(c, handler[p].request.quantity,
                           handler[p].request.targetLocationId,
                           handler[p].request.batchId), "in")

\* step 5: the incoming ledger row
TransferLogIn(p, c) ==
  /\ At(p, "transfer", "in")
  /\ Await(p, InsertTransaction(c, handler[p].request.targetLocationId,
                                handler[p].request.batchId,
                                handler[p].request.quantity), "commit")

\* COMMIT and 200
TransferCommit(p, c) ==
  /\ At(p, "transfer", "commit")
  /\ Respond(p, Commit(c), 200)

\* ROLLBACK and 400: batch not found, no source row, not enough stock
TransferReject(p, c) ==
  /\ At(p, "transfer", "reject")
  /\ Respond(p, Rollback(c), 400)

\* the catch block: ROLLBACK, rethrow, and the outer catch answers 500
TransferCatch(p, c) ==
  /\ At(p, "transfer", "catch")
  /\ Respond(p, Rollback(c), 500)

InitStock ==
  /\ scan = <<>>
  /\ raw = <<>>
  /\ pc = "call"
  /\ result = NoResult
  /\ yymmdd = <<>>
  /\ expiry = null
  /\ formatted = NoFormat
  /\ scanner = ScanInit
  /\ last = NoCapture
  /\ iterations = 0
  /\ StockInit

NextStock ==
  \E p \in Requests :
    \/ AdjustReceive(p)
    \/ TransferReceive(p)
    \/ \E c \in Clients :
         \/ AdjustBegin(p, c)
         \/ AdjustSelectBatch(p, c)
         \/ AdjustSelectOnHand(p, c)
         \/ AdjustInsert(p, c)
         \/ AdjustUpdate(p, c)
         \/ AdjustInsertTransaction(p, c)
         \/ AdjustCommit(p, c)
         \/ AdjustReject(p, c)
         \/ AdjustCatch(p, c)
         \/ TransferBegin(p, c)
         \/ TransferSelectBatch(p, c)
         \/ TransferCheckSource(p, c)
         \/ TransferDecrease(p, c)
         \/ TransferLogOut(p, c)
         \/ TransferEnsureTarget(p, c)
         \/ TransferIncrease(p, c)
         \/ TransferLogIn(p, c)
         \/ TransferCommit(p, c)
         \/ TransferReject(p, c)
         \/ TransferCatch(p, c)

SpecStock == InitStock /\ [][NextStock]_vars

----------------------------------------------------------------------------
(* Claims about the stock handlers, under SpecStock *)

Received == {p \in Requests : handler[p].pc # "idle"}

Answered == {p \in Requests : handler[p].pc = "done"}

OnHand(inv, locationId, batchId) ==
  IF Key(locationId, batchId) \in DOMAIN inv
  THEN inv[Key(locationId, batchId)] ELSE 0

\* C28: stock-adjust prevents negative stock.  While only stock-adjust
\* requests have been received, no inventory row has on_hand below zero;
\* and a single request whose delta would take its (location, batch) below
\* zero, a location with no row for the batch counting as zero, is answered
\* 400 with the inventory and the ledger as they were before it.
C28_AdjustPreventsNegativeStock ==
  (\A p \in Received : handler[p].request.kind = "adjust") =>
    /\ \A k \in DOMAIN inventory : inventory[k] >= 0
    /\ \A p \in Answered :
         ( /\ Received = {p}
           /\ OnHand(InitialInventory, handler[p].request.locationId,
                     handler[p].request.batchId)
                + handler[p].request.delta < 0 )
         => /\ handler[p].statusCode = 400
            /\ inventory = InitialInventory
            /\ transactions = <<>>

RECURSIVE TotalOnHand(_, _, _)
TotalOnHand(inv, locations, batchId) ==
  IF locations = {} THEN 0
  ELSE LET l == CHOOSE x \in locations : TRUE
       IN OnHand(inv, l, batchId) + TotalOnHand(inv, locations \ {l}, batchId)

\* The tables after a transfer has gone through
Transferred(inv, request) ==
  LET source == Key(request.sourceLocationId, request.batchId)
      target == Key(request.targetLocationId, request.batchId)
      out == Put(inv, source, inv[source] - request.quantity)
  IN Put(out, target,
         OnHand(out, request.targetLocationId, request.batchId)
           + request.quantity)

LedgerOf(request) ==
  << [location_id |-> request.sourceLocationId, batch_id |-> request.batchId,
      delta |-> -request.quantity],
     [location_id |-> request.targetLocationId, batch_id |-> request.batchId,
      delta |-> request.quantity] >>

\* C29: stock-transfer conserves stock.  Once every request received has
\* been answered, all of them stock-transfer requests, the on_hand of each
\* batch summed over the locations is what it was at the start; if none was
\* answered 200 the inventory and the ledger are as at the start; and a
\* single transfer answered 200 has moved quantity from the source row to
\* the target row and left two ledger rows, -quantity and +quantity.
C29_TransferConservesStock ==
  ( /\ Received = Answered
    /\ \A p \in Received : handler[p].request.kind = "transfer" )
  => /\ \A b \in Batches :
          TotalOnHand(inventory, Locations, b)
            = TotalOnHand(InitialInventory, Locations, b)
     /\ (\A p \in Answered : handler[p].statusCode # 200)
          => inventory = InitialInventory /\ transactions = <<>>
     /\ \A p \in Answered :
          (Received = {p} /\ handler[p].statusCode = 200)
          => /\ inventory = Transferred(InitialInventory, handler[p].request)
             /\ transactions = LedgerOf(handler[p].request)

\* The row the requests of C30 draw on
SourceRow == Key("A", "b1")

\* A request that takes stock out of SourceRow, and how much
DrawsOnSource(request) ==
  \/ /\ request.kind = "adjust"
     /\ Key(request.locationId, request.batchId) = SourceRow
     /\ request.delta < 0
  \/ /\ request.kind = "transfer"
     /\ Key(request.sourceLocationId, request.batchId) = SourceRow
     /\ request.targetLocationId # request.sourceLocationId

Drawn(request) ==
  IF request.kind = "adjust" THEN -request.delta ELSE request.quantity

RECURSIVE TotalDrawn(_)
TotalDrawn(ps) ==
  IF ps = {} THEN 0
  ELSE LET p == CHOOSE x \in ps : TRUE
       IN Drawn(handler[p].request) + TotalDrawn(ps \ {p})

\* C30: concurrent requests never overdraw a row.  While every request
\* received takes stock out of the same (location, batch) row, in whatever
\* order their queries interleave, the on_hand of that row is never below
\* zero and the requests answered 200 have together taken no more than the
\* row held at the start.
C30_NoOverdraw ==
  (\A p \in Received : DrawsOnSource(handler[p].request)) =>
    /\ inventory[SourceRow] >= 0
    /\ TotalDrawn({p \in Answered : handler[p].statusCode = 200})
         <= InitialInventory[SourceRow]

====
